---- MODULE Spec2Model ----
(***************************************************************************)
(* Model of the page-processing core of IRWebCrawler:                      *)
(*   analytics.py  - the lock-guarded Analytics aggregator                 *)
(*   scraper.py    - scraper(url, resp), is_valid(url) and their helpers   *)
(*                                                                         *)
(* Representation of Python values                                         *)
(*   URL string   : record [scheme, host, path, query, frag]               *)
(*                  host  = sequence of DNS labels  ("ics.uci.edu" is      *)
(*                          <<"ics","uci","edu">>), <<>> when absent       *)
(*                  path  = sequence of segments [stem, ext] ("/a.pdf" is  *)
(*                          <<[stem |-> "a", ext |-> "pdf"]>>)             *)
(*                  query = sequence of parameters [name, value]           *)
(*                  frag  = text after '#', "" when there is none          *)
(*                  malformed = urlparse raises ValueError on the string   *)
(*                  the empty string is EmptyUrl                           *)
(*   token list   : run-length encoded, a sequence of runs [w, n] standing *)
(*                  for n consecutive occurrences of the word w            *)
(*   Counter      : sequence of <<word, count>> in key insertion order     *)
(*   defaultdict  : function whose DOMAIN is the set of keys present       *)
(***************************************************************************)
EXTENDS Integers, Sequences, FiniteSets, TLC

VARIABLES
    \* ---- analytics.Analytics instance `analytics` ----
    lock,               \* holder of self.lock, or NoThread
    unique_urls,        \* self.unique_urls
    word_freq,          \* self.word_freq
    longest_url,        \* self.longest_url
    longest_word_count, \* self.longest_word_count
    subdomain_pages,    \* self.subdomain_pages
    \* ---- threads calling Analytics.add_page ----
    pc,                 \* pc[t]: position of thread t in add_page
    loc,                \* loc[t]: locals url, tokens of thread t's call
    \* ---- history: (url, cleaned tokens) of every page inserted at line 53
    admitted,
    \* ---- scraper.py module-level globals ----
    scraper_word_freq,  \* word_freq (scraper.py line 87)
    longest_page,       \* longest_page
    unique_pages,       \* unique_pages
    pages_by_subdomain, \* pages_by_subdomain
    url_inventory,      \* url_inventory
    \* ---- outcome of the last scraper(url, resp) call ----
    call,               \* arguments [url, resp] of that call
    result,             \* [kind, links, at]: returned list or raised, and where
    \* ---- outcome of the last is_valid(url) call ----
    checked,            \* the argument url, or NoCheck
    verdict,            \* "none", or what the call returned or raised
    decisions,          \* history: <<url, verdict, pages processed before>> of the calls
    \* ---- Analytics.write_report ----
    rpc,                \* position of the caller of write_report
    snap,               \* its locals unique_pages, longest_url, longest_wc, top50, subs
    report_file,        \* the lines of the file at report_path, or NoFile
    seen,               \* history: the aggregator when write_report took the lock
    \* ---- threads calling scraper concurrently ----
    spc,                \* spc[t]: position of thread t in scraper
    sloc                \* sloc[t]: its arguments and locals

aggVars == <<unique_urls, word_freq, longest_url, longest_word_count, subdomain_pages>>
moduleVars == <<scraper_word_freq, longest_page, unique_pages, pages_by_subdomain,
                url_inventory>>
scraperVars == <<scraper_word_freq, longest_page, unique_pages, pages_by_subdomain,
                 url_inventory, call, result>>
validVars == <<checked, verdict, decisions>>
reportVars == <<rpc, snap, report_file, seen>>
raceVars == <<spc, sloc>>
extVars == <<validVars, reportVars, raceVars>>
vars == <<lock, unique_urls, word_freq, longest_url, longest_word_count,
          subdomain_pages, pc, loc, admitted, scraper_word_freq, longest_page,
          unique_pages, pages_by_subdomain, url_inventory, call, result, extVars>>

-----------------------------------------------------------------------------
(* Python None and "" *)
None == [none |-> TRUE]
NoThread == "none"

EmptyUrl == [scheme |-> "", host |-> <<>>, path |-> <<>>, query |-> <<>>, frag |-> "",
             malformed |-> FALSE]

Seg(stem, ext) == [stem |-> stem, ext |-> ext]

Url(scheme, host, path, query, frag) ==
    [scheme |-> scheme, host |-> host, path |-> path, query |-> query, frag |-> frag,
     malformed |-> FALSE]

-----------------------------------------------------------------------------
(* Words and token lists *)

\* str.lower() on the vocabulary: the only words with upper-case letters
UpperToLower ==
    [w \in {"Research", "The", "Events"} |->
        CASE w = "The" -> "the" [] w = "Research" -> "research" [] w = "Events" -> "events"]
Lower(w) == IF w \in DOMAIN UpperToLower THEN UpperToLower[w] ELSE w

\* str.isnumeric() on the vocabulary
NumericWords == {"2025", "7"}
IsNumeric(w) == w \in NumericWords

Run(w, n) == [w |-> w, n |-> n]

RECURSIVE TokLen(_)
\* len(tokens)
TokLen(tokens) ==
    IF tokens = <<>> THEN 0 ELSE Head(tokens).n + TokLen(Tail(tokens))

\* number of occurrences of word w in tokens
RECURSIVE Occurrences(_, _)
Occurrences(tokens, w) ==
    IF tokens = <<>> THEN 0
    ELSE (IF Head(tokens).w = w THEN Head(tokens).n ELSE 0) + Occurrences(Tail(tokens), w)

-----------------------------------------------------------------------------
(* Text of URLs. Strings are atomic in the model, so str.startswith and the  *)
(* `in` test on strings are given by the facts that hold between the strings *)
(* of the model's vocabulary.                                                *)

ProperPrefixes ==
    { <<"text/html; charset=utf-8", "text/html">>,
      <<"events", "event">>, <<"sidebar", "sid">>, <<"authors", "auth">>,
      <<"session_id", "session">>, <<"pages", "page">> }
ProperInfixes ==
    { <<"jsessionid", "sid">>, <<"jsessionid", "session">>, <<"phpsessid", "sid">>,
      <<"outlook-ical", "ical">>, <<"session_id", "sid">> }

StartsWith(str, prefix) == str = prefix \/ <<str, prefix>> \in ProperPrefixes
Contains(str, sub) == StartsWith(str, sub) \/ <<str, sub>> \in ProperInfixes

\* \d{4}, \d{1,2}... and \d{4}-\d{1,2}... at the start of a segment
YearStems == {"2024", "2025"}
DigitStems == {"2024", "2025", "03", "7", "12"}
YearMonthStems == {"2024-03", "2025-02-14"}

SegText(seg) == IF seg.ext = "" THEN seg.stem ELSE seg.stem \o "." \o seg.ext
SegLower(seg) == [stem |-> Lower(seg.stem), ext |-> Lower(seg.ext)]

RECURSIVE SumLen(_)
SumLen(strs) == IF strs = <<>> THEN 0 ELSE Len(Head(strs)) + SumLen(Tail(strs))

\* number of characters of the URL string
UrlLen(url) ==
    LET host  == SumLen(url.host) + (IF url.host = <<>> THEN 0 ELSE Len(url.host) - 1)
        path  == SumLen([i \in DOMAIN url.path |-> SegText(url.path[i])]) + Len(url.path)
        query == IF url.query = <<>> THEN 0
                 ELSE SumLen([i \in DOMAIN url.query |->
                                 url.query[i].name \o "=" \o url.query[i].value])
                      + Len(url.query)
        frag  == IF url.frag = "" THEN 0 ELSE 1 + Len(url.frag)
    IN  Len(url.scheme) + 3 + host + path + query + frag

Param(name, value) == [name |-> name, value |-> value]

\* urllib.parse.parse_qs(query).keys(): blank values are dropped
parse_qs_keys(query) ==
    {query[i].name : i \in {k \in DOMAIN query : query[k].value # ""}}

\* urllib.parse.urldefrag(url)[0]
urldefragKeep(url) == url
urldefrag(url) == [url EXCEPT !.frag = ""]

-----------------------------------------------------------------------------
(* analytics.py: helpers of class Analytics *)

min_words == 50

\* str.endswith("." + suffix) on a host name, label by label
EndsWithDomain(host, suffix) ==
    /\ Len(host) > Len(suffix)
    /\ SubSeq(host, Len(host) - Len(suffix) + 1, Len(host)) = suffix

defrag(url) == urldefrag(url)

hostname(url) == [i \in DOMAIN url.host |-> Lower(url.host[i])]

\* the three `continue` tests of clean_tokens, applied to the lowered token
KeepTokenNumeric(t) == t # "" /\ Len(t) > 1
KeepToken(t) == t # "" /\ ~IsNumeric(t) /\ Len(t) > 1

RECURSIVE clean_tokens(_)
clean_tokens(tokens) ==
    IF tokens = <<>> THEN <<>>
    ELSE LET t    == Lower(Head(tokens).w)
             rest == clean_tokens(Tail(tokens))
         IN  IF KeepToken(t) THEN <<Run(t, Head(tokens).n)>> \o rest ELSE rest

\* len(tokens) < self.min_words
TooShortInclusive(tokens) == TokLen(tokens) <= min_words
TooShort(tokens) == TokLen(tokens) < min_words

(* collections.Counter *)
HasKey(wf, w) == \E i \in DOMAIN wf : wf[i][1] = w
Count(wf, w) ==
    IF HasKey(wf, w) THEN wf[CHOOSE i \in DOMAIN wf : wf[i][1] = w][2] ELSE 0
AddCountOverwrite(wf, w, n) ==
    IF HasKey(wf, w)
    THEN [i \in DOMAIN wf |-> IF wf[i][1] = w THEN <<w, n>> ELSE wf[i]]
    ELSE Append(wf, <<w, n>>)
AddCount(wf, w, n) ==
    IF HasKey(wf, w)
    THEN [i \in DOMAIN wf |-> IF wf[i][1] = w THEN <<w, wf[i][2] + n>> ELSE wf[i]]
    ELSE Append(wf, <<w, n>>)

RECURSIVE CounterUpdate(_, _)
CounterUpdate(wf, tokens) ==
    IF tokens = <<>> THEN wf
    ELSE CounterUpdate(AddCount(wf, Head(tokens).w, Head(tokens).n), Tail(tokens))

-----------------------------------------------------------------------------
(* analytics.py: the statements of add_page's critical section, as functions *)
(* of the aggregator's fields                                                *)

Agg == [unique_urls        |-> unique_urls,
        word_freq          |-> word_freq,
        longest_url        |-> longest_url,
        longest_word_count |-> longest_word_count,
        subdomain_pages    |-> subdomain_pages]

SetAgg(a) ==
    /\ unique_urls' = a.unique_urls
    /\ word_freq' = a.word_freq
    /\ longest_url' = a.longest_url
    /\ longest_word_count' = a.longest_word_count
    /\ subdomain_pages' = a.subdomain_pages

EmptyAgg == [unique_urls        |-> {},
             word_freq          |-> <<>>,
             longest_url        |-> None,
             longest_word_count |-> 0,
             subdomain_pages    |-> <<>>]

\* line 51
SeenNever(a, url) == FALSE
Seen(a, url) == url \in a.unique_urls

\* line 53
InsertUrl(a, url) == [a EXCEPT !.unique_urls = @ \cup {url}]

\* lines 55-58
UpdateLongestOnTie(a, url, tokens) ==
    LET wc == TokLen(tokens)
    IN  IF wc >= a.longest_word_count
        THEN [a EXCEPT !.longest_word_count = wc, !.longest_url = url]
        ELSE a
UpdateLongest(a, url, tokens) ==
    LET wc == TokLen(tokens)
    IN  IF wc > a.longest_word_count
        THEN [a EXCEPT !.longest_word_count = wc, !.longest_url = url]
        ELSE a

\* line 60
MergeWords(a, tokens) == [a EXCEPT !.word_freq = CounterUpdate(@, tokens)]

\* lines 62-64
TrackSubdomain(a, url) ==
    LET host == hostname(url)
        sp   == a.subdomain_pages
    IN  IF host # <<>> /\ EndsWithDomain(host, <<"uci", "edu">>)
        THEN [a EXCEPT !.subdomain_pages =
                 [h \in DOMAIN sp \cup {host} |->
                     IF h = host
                     THEN (IF h \in DOMAIN sp THEN sp[h] ELSE {}) \cup {url}
                     ELSE sp[h]]]
        ELSE a

\* Analytics.add_page run to completion by one caller
add_page(a, url0, tokens0) ==
    IF url0 = EmptyUrl THEN a
    ELSE LET url    == defrag(url0)
             tokens == clean_tokens(tokens0)
         IN  IF TooShort(tokens) THEN a
             ELSE IF Seen(a, url) THEN a
             ELSE TrackSubdomain(
                      MergeWords(
                          UpdateLongest(InsertUrl(a, url), url, tokens),
                          tokens),
                      url)

-----------------------------------------------------------------------------
(* scraper.py: is_valid *)

allowed_domains ==
    { <<"ics", "uci", "edu">>, <<"cs", "uci", "edu">>,
      <<"informatics", "uci", "edu">>, <<"stat", "uci", "edu">> }

BannedExtensions ==
    { "css", "js", "bmp", "gif", "jpg", "jpeg", "ico", "png", "tif", "tiff", "mid",
      "mp2", "mp3", "mp4", "wav", "avi", "mov", "mpeg", "ram", "m4v", "mkv", "ogg",
      "ogv", "pdf", "ps", "eps", "tex", "ppt", "pptx", "doc", "docx", "xls", "xlsx",
      "names", "data", "dat", "exe", "bz2", "tar", "msi", "bin", "7z", "psd", "dmg",
      "iso", "epub", "dll", "cnf", "tgz", "sha1", "thmx", "mso", "arff", "rtf", "jar",
      "csv", "rm", "smil", "wmv", "swf", "wma", "zip", "rar", "gz" }

suspicious_params ==
    { "session", "sid", "jsessionid", "phpsessid", "token", "auth",
      "timestamp", "replytocom", "uid", "startdt", "enddt" }

duplicate_params == {"sort", "order", "view", "filter", "page", "display", "action"}

ApacheSortValues ==
    { "D;O=A", "D;O=D", "N;O=A", "N;O=D", "M;O=A", "M;O=D", "S;O=A", "S;O=D" }

MaxQueryParams == 8
MaxDepth == 15
MaxUrlLen == 200
MaxSegLen == 80

\* re.search(r'/(k1|k2|...)', path_lower): some segment starts with a keyword
AnySegStartsWith(path, keywords) ==
    \E i \in DOMAIN path : \E k \in keywords : StartsWith(SegText(path[i]), k)

\* lines 723-735
SchemeOk(url) == url.scheme \in {"http", "https"}
DomainOk(url) ==
    \E domain \in allowed_domains : EndsWithDomain(url.host, domain) \/ url.host = domain

\* lines 751-766
CalendarTrapKeywordsOnly(url) ==
    LET path == [i \in DOMAIN url.path |-> SegLower(url.path[i])]
    IN  AnySegStartsWith(path, {"calendar", "event", "archive", "ical", "outlook"})
CalendarTrap(url) ==
    LET path  == [i \in DOMAIN url.path |-> SegLower(url.path[i])]
        query == url.query
    IN  \/ AnySegStartsWith(path, {"calendar", "event", "archive", "ical", "outlook"})
        \/ \E i \in DOMAIN path :
               /\ i < Len(path)
               /\ SegText(path[i]) = "tag"
               /\ StartsWith(SegText(path[i + 1]), "talks")
        \/ \E i \in DOMAIN path : path[i].stem = "" /\ StartsWith(path[i].ext, "ics")
        \/ \E i \in DOMAIN query : \E k \in {"ical", "outlook", "gcal"} :
               Contains(Lower(query[i].name), k) \/ Contains(Lower(query[i].value), k)
        \/ \E i \in DOMAIN path : path[i].stem \in YearMonthStems
        \/ \E i \in DOMAIN path :
               /\ i < Len(path)
               /\ SegText(path[i]) \in YearStems
               /\ path[i + 1].stem \in DigitStems \cup YearMonthStems

\* lines 771-780
BannedFileType(url) ==
    /\ url.path # <<>>
    /\ Lower(url.path[Len(url.path)].ext) \in BannedExtensions

\* lines 809-811
SessionParam(url) ==
    \E param \in parse_qs_keys(url.query) :
        \E susp \in suspicious_params : Contains(Lower(param), susp)

\* lines 785-820
QueryTrap(url) ==
    /\ url.query # <<>>
    /\ LET last == IF url.path = <<>> THEN Seg("", "")
                   ELSE SegLower(url.path[Len(url.path)])
           keys == parse_qs_keys(url.query)
       IN  \/ /\ Len(url.query) = 1
              /\ url.query[1].name = "C"
              /\ url.query[1].value \in ApacheSortValues
           \/ last = Seg("doku", "php") /\ "idx" \in keys
           \/ SessionParam(url)
           \/ Cardinality(keys) > MaxQueryParams
           \/ keys \cap duplicate_params # {}

\* lines 826-851
ContentAreaTrap(url) ==
    LET path == [i \in DOMAIN url.path |-> SegLower(url.path[i])]
    IN  \/ AnySegStartsWith(path, {"login", "logout", "signin", "signout", "register", "auth"})
        \/ AnySegStartsWith(path, {"download", "print", "share", "export"})
        \/ AnySegStartsWith(path, {"api", "json", "xml", "rss", "feed", "ajax"})
        \/ AnySegStartsWith(path, {"admin", "wp-admin", "wp-content", "wp-includes"})
        \/ AnySegStartsWith(path, {"cart", "checkout", "account", "profile"})
        \/ \E i \in DOMAIN path : \E k \in {"gallery", "attachment"} :
               Contains(path[i].stem, k) \/ Contains(path[i].ext, k)
        \/ /\ path # <<>>
           /\ \/ SegText(path[Len(path)]) \in {"index", "sitemap", "default.php"}
              \/ /\ Len(path) >= 2
                 /\ SegText(path[Len(path) - 1]) = "page"
                 /\ SegText(path[Len(path)]) \in DigitStems

\* lines 857-872
PathStructureTrap(url) ==
    LET path_parts == SelectSeq([i \in DOMAIN url.path |-> SegLower(url.path[i])],
                                LAMBDA seg : SegText(seg) # "")
    IN  \/ Len(path_parts) # Cardinality({path_parts[i] : i \in DOMAIN path_parts})
        \/ Len(path_parts) > MaxDepth
        \/ UrlLen(url) > MaxUrlLen
        \/ \E i \in DOMAIN path_parts : Len(SegText(path_parts[i])) > MaxSegLen

\* lines 877-878
HasFragment(url) == url.frag # ""

\* is_valid(url); a URL that urlparse cannot parse raises inside the try
\* block and gives False
is_valid(url) ==
    /\ ~url.malformed
    /\ SchemeOk(url)
    /\ DomainOk(url)
    /\ ~CalendarTrap(url)
    /\ ~BannedFileType(url)
    /\ ~QueryTrap(url)
    /\ ~ContentAreaTrap(url)
    /\ ~PathStructureTrap(url)
    /\ ~HasFragment(url)

-----------------------------------------------------------------------------
(* scraper.py: helpers of scraper *)

STOPWORDS ==
    { "a", "about", "above", "after", "again", "against", "all", "am", "an", "and",
      "any", "are", "aren't", "as", "at", "be", "because", "been", "before", "being",
      "below", "between", "both", "but", "by", "can't", "cannot", "could", "couldn't",
      "did", "didn't", "do", "does", "doesn't", "doing", "don't", "down", "during",
      "each", "few", "for", "from", "further", "had", "hadn't", "has", "hasn't",
      "have", "haven't", "having", "he", "he'd", "he'll", "he's", "her", "here",
      "here's", "hers", "herself", "him", "himself", "his", "how", "how's", "i",
      "i'd", "i'll", "i'm", "i've", "if", "in", "into", "is", "isn't", "it", "it's",
      "its", "itself", "let's", "me", "more", "most", "mustn't", "my", "myself",
      "no", "nor", "not", "of", "off", "on", "once", "only", "or", "other", "ought",
      "our", "ours", "ourselves", "out", "over", "own", "same", "shan't", "she",
      "she'd", "she'll", "she's", "should", "shouldn't", "so", "some", "such",
      "than", "that", "that's", "the", "their", "theirs", "them", "themselves",
      "then", "there", "there's", "these", "they", "they'd", "they'll", "they're",
      "they've", "this", "those", "through", "to", "too", "under", "until", "up",
      "very", "was", "wasn't", "we", "we'd", "we'll", "we're", "we've", "were",
      "weren't", "what", "what's", "when", "when's", "where", "where's", "which",
      "while", "who", "who's", "whom", "why", "why's", "with", "won't", "would",
      "wouldn't", "you", "you'd", "you'll", "you're", "you've", "your", "yours",
      "yourself", "yourselves" }

\* tokenize(text): the text is given as its runs of alphanumeric words
RECURSIVE tokenize(_)
tokenize(text) ==
    IF text = <<>> THEN <<>>
    ELSE LET t    == Lower(Head(text).w)
             rest == tokenize(Tail(text))
         IN  IF t # "" /\ t \notin STOPWORDS
             THEN <<Run(t, Head(text).n)>> \o rest
             ELSE rest

LowInfoThreshold == 10
is_low_information_pageBelowNine(token_count) == token_count < LowInfoThreshold - 1
is_low_information_page(token_count) == token_count < LowInfoThreshold

DeadContentLength == 50
is_dead_200(token_count, content_length) ==
    \/ token_count = 0
    \/ content_length > 0 /\ content_length < DeadContentLength

\* get_subdomain(url): "" is the empty host <<>>
get_subdomain(url) ==
    LET host == [i \in DOMAIN url.host |-> Lower(url.host[i])]
        hits == {d \in allowed_domains : EndsWithDomain(host, d)}
    IN  IF url.malformed \/ hits = {} THEN <<>> ELSE CHOOSE d \in hits : TRUE

(* Content-Length header: absent, or a text that int() parses or rejects *)
NoHeader == [kind |-> "absent", n |-> 0]
BadNumber == [kind |-> "invalid", n |-> 0]
Number(n) == [kind |-> "int", n |-> n]

MaxContentLength == 5 * 1024 * 1024

\* lines 492-497: cl and int(cl) > 5 MiB; a ValueError is swallowed
TooLargeFailsClosed(cl) == cl.kind = "invalid" \/ (cl.kind = "int" /\ cl.n > MaxContentLength)
TooLarge(cl) == cl.kind = "int" /\ cl.n > MaxContentLength

\* lines 538-543: cl and is_dead_200(len(tokens), int(cl)); a ValueError is swallowed
DeadResponse(cl, token_count) == cl.kind = "int" /\ is_dead_200(token_count, cl.n)

\* lines 468-497: the line whose `return links` rejects the response, "pass",
\* or "line482" when raw_response.headers is None and .get raises outside
\* any try block
PageGateAnyStatus(resp) ==
    IF ~resp.raw THEN "line474"
    ELSE IF ~resp.headers THEN "line482"
    ELSE IF ~Contains(resp.ctype, "text/html") THEN "line484"
    ELSE IF TooLarge(resp.clen) THEN "line495"
    ELSE "pass"
PageGate(resp) ==
    IF resp.status # 200 THEN "line469"
    ELSE IF ~resp.raw THEN "line474"
    ELSE IF ~resp.headers THEN "line482"
    ELSE IF ~Contains(resp.ctype, "text/html") THEN "line484"
    ELSE IF TooLarge(resp.clen) THEN "line495"
    ELSE "pass"

(* hrefs: a URL reference [scheme, host, rooted, path, query, frag, malformed] *)
Href(scheme, host, rooted, path, query, frag) ==
    [scheme |-> scheme, host |-> host, rooted |-> rooted, path |-> path,
     query |-> query, frag |-> frag, malformed |-> FALSE]

\* `not href`: the empty string
IsEmptyHref(h) ==
    /\ ~h.malformed
    /\ h.scheme = "" /\ h.host = <<>> /\ ~h.rooted /\ h.path = <<>>
    /\ h.query = <<>> /\ h.frag = ""

\* href.startswith('#')
StartsWithHash(h) ==
    /\ ~h.malformed
    /\ h.scheme = "" /\ h.host = <<>> /\ ~h.rooted /\ h.path = <<>>
    /\ h.query = <<>> /\ h.frag # ""

\* line 621
NonNavigational(h) ==
    \/ Lower(h.scheme) \in {"javascript", "mailto"}
    \/ StartsWithHash(h)

(* urllib.parse.urljoin *)
uses_relative == {"", "http", "https", "ftp", "file"}

DotSeg == Seg(".", "")
DotDotSeg == Seg("..", "")
EmptySeg == Seg("", "")

RECURSIVE RemoveDotSegments(_, _)
RemoveDotSegments(segments, resolved) ==
    IF segments = <<>> THEN resolved
    ELSE LET seg == Head(segments)
         IN  IF seg = DotDotSeg
             THEN RemoveDotSegments(Tail(segments),
                      IF resolved = <<>> THEN <<>>
                      ELSE SubSeq(resolved, 1, Len(resolved) - 1))
             ELSE IF seg = DotSeg
             THEN RemoveDotSegments(Tail(segments), resolved)
             ELSE RemoveDotSegments(Tail(segments), Append(resolved, seg))

ResolvePath(bpath, h) ==
    LET base_parts == IF bpath = <<>> THEN <<>> ELSE SubSeq(bpath, 1, Len(bpath) - 1)
        segments   == IF h.rooted THEN h.path ELSE base_parts \o h.path
        resolved   == RemoveDotSegments(segments, <<>>)
        closed     == IF segments[Len(segments)] \in {DotSeg, DotDotSeg}
                      THEN Append(resolved, EmptySeg) ELSE resolved
    IN  IF closed = <<>> THEN <<EmptySeg>> ELSE closed

urljoin(base, h) ==
    LET scheme == IF h.scheme = "" THEN base.scheme ELSE h.scheme
    IN  IF scheme # base.scheme \/ scheme \notin uses_relative
        THEN Url(h.scheme, h.host, h.path, h.query, h.frag)
        ELSE IF h.host # <<>>
        THEN Url(scheme, h.host, h.path, h.query, h.frag)
        ELSE IF h.path = <<>>
        THEN Url(scheme, base.host, base.path,
                 IF h.query = <<>> THEN base.query ELSE h.query, h.frag)
        ELSE Url(scheme, base.host, ResolvePath(base.path, h), h.query, h.frag)

\* lines 605-649: the canonical URL of one anchor, <<>> when the anchor is skipped
CanonicalLink(base, h) ==
    IF IsEmptyHref(h) THEN <<>>
    ELSE IF NonNavigational(h) THEN <<>>
    ELSE IF h.malformed THEN <<>>
    ELSE <<urldefrag(urljoin(base, h))>>

\* line 658
AdmitLinkAlways(href) == TRUE
AdmitLink(href) == is_valid(href)

RECURSIVE ExtractLinks(_, _)
\* lines 602-659 over the anchors of the page
ExtractLinks(base, anchors) ==
    IF anchors = <<>> THEN <<>>
    ELSE SelectSeq(CanonicalLink(base, Head(anchors)), AdmitLink)
         \o ExtractLinks(base, Tail(anchors))

LinkCountThreshold == 100

\* lines 584-589: link_count > 100 and link_count / word_count > 0.5
LinkDenseEither(link_count, word_count) ==
    /\ word_count > 0
    /\ (link_count > LinkCountThreshold \/ 2 * link_count > word_count)
LinkDense(link_count, word_count) ==
    /\ word_count > 0
    /\ link_count > LinkCountThreshold
    /\ 2 * link_count > word_count

-----------------------------------------------------------------------------
(* Inputs of add_page *)

UA  == Url("https", <<"ics", "uci", "edu">>, <<Seg("a", "")>>, <<>>, "")
UAf == Url("https", <<"ics", "uci", "edu">>, <<Seg("a", "")>>, <<>>, "top")
UE  == Url("http", <<"evil", "com">>, <<Seg("c", "")>>, <<>>, "")

PageUrls == {UA, UAf, UE, EmptyUrl}

T49  == <<Run("research", 49), Run("2025", 1), Run("x", 1), Run("", 1)>>
T50  == <<Run("Research", 30), Run("7", 2), Run("ml", 20)>>
T500 == <<Run("ml", 500)>>
T700 == <<Run("research", 400), Run("crawler", 300)>>

TokenLists == {T49, T50, T500, T700}

Words == {"research", "ml", "crawler", "x", "y", "2025", "7", "", "Research", "the", "The",
          "web"} \cup {"w" \o ToString(i) : i \in 1..52}

-----------------------------------------------------------------------------
(* Threads calling analytics.add_page concurrently *)

Threads == {"t1", "t2"}

NoLoc == [url |-> EmptyUrl, tokens |-> <<>>]

\* no scraper call has been made yet
NoCall == [url |-> EmptyUrl]
NoResult == [kind |-> "none", links |-> <<>>, at |-> "start"]

\* is_valid has not been called yet
NoCheck == [none |-> "url"]

\* no file exists at report_path
NoFile == <<>>

\* the locals of write_report before their assignment
NoSnap == [unique_pages |-> 0, longest_url |-> None, longest_wc |-> 0,
           top50 |-> <<>>, subs |-> <<>>]
NotSeen == [taken |-> FALSE, agg |-> EmptyAgg, applied |-> FALSE]

\* the locals of a scraper call before the call
NoLocals == [url |-> EmptyUrl, tokens |-> <<>>, i |-> 0, got |-> 0,
             result |-> NoResult]

\* positions after a return statement of add_page (43, 48, 52, end of body)
Returned == {"ret43", "ret48", "ret52", "ret64"}

\* `with self.lock:` can be entered
LockHeldIgnored == TRUE
LockFree == lock = NoThread

\* lines 42-48: the part of add_page before the lock
AddPageCall(t, u, tk) ==
    /\ pc[t] \in Returned \cup {"idle"}
    /\ IF u = EmptyUrl
       THEN pc' = [pc EXCEPT ![t] = "ret43"] /\ loc' = [loc EXCEPT ![t] = NoLoc]
       ELSE LET url    == defrag(u)
                tokens == clean_tokens(tk)
            IN  IF TooShort(tokens)
                THEN /\ pc' = [pc EXCEPT ![t] = "ret48"]
                     /\ loc' = [loc EXCEPT ![t] = NoLoc]
                ELSE /\ pc' = [pc EXCEPT ![t] = "line50"]
                     /\ loc' = [loc EXCEPT ![t] = [url |-> url, tokens |-> tokens]]
    /\ UNCHANGED <<lock, aggVars, admitted, scraperVars, extVars>>

\* line 50: with self.lock
Acquire(t) ==
    /\ pc[t] = "line50"
    /\ LockFree
    /\ lock' = t
    /\ pc' = [pc EXCEPT ![t] = "line51"]
    /\ UNCHANGED <<aggVars, loc, admitted, scraperVars, extVars>>

\* the holder of self.lock once thread t has left the with block through the
\* return of line 52
KeptOnReturn(t) == t
ReleasedOnReturn(t) == NoThread

\* lines 51-52: early return inside the with block releases the lock
CheckSeen(t) ==
    /\ pc[t] = "line51"
    /\ IF Seen(Agg, loc[t].url)
       THEN /\ pc' = [pc EXCEPT ![t] = "ret52"]
            /\ loc' = [loc EXCEPT ![t] = NoLoc]
            /\ lock' = ReleasedOnReturn(t)
       ELSE /\ pc' = [pc EXCEPT ![t] = "line53"]
            /\ UNCHANGED <<loc, lock>>
    /\ UNCHANGED <<aggVars, admitted, scraperVars, extVars>>

\* line 53
Insert(t) ==
    /\ pc[t] = "line53"
    /\ SetAgg(InsertUrl(Agg, loc[t].url))
    /\ admitted' = Append(admitted, loc[t])
    /\ pc' = [pc EXCEPT ![t] = "line55"]
    /\ UNCHANGED <<lock, loc, scraperVars, extVars>>

\* lines 55-58
Longest(t) ==
    /\ pc[t] = "line55"
    /\ SetAgg(UpdateLongest(Agg, loc[t].url, loc[t].tokens))
    /\ pc' = [pc EXCEPT ![t] = "line60"]
    /\ UNCHANGED <<lock, loc, admitted, scraperVars, extVars>>

\* line 60
WordFreq(t) ==
    /\ pc[t] = "line60"
    /\ SetAgg(MergeWords(Agg, loc[t].tokens))
    /\ pc' = [pc EXCEPT ![t] = "line62"]
    /\ UNCHANGED <<lock, loc, admitted, scraperVars, extVars>>

\* lines 62-64, then the with block ends and the lock is released
Subdomain(t) ==
    /\ pc[t] = "line62"
    /\ SetAgg(TrackSubdomain(Agg, loc[t].url))
    /\ lock' = NoThread
    /\ pc' = [pc EXCEPT ![t] = "ret64"]
    /\ loc' = [loc EXCEPT ![t] = NoLoc]
    /\ UNCHANGED <<admitted, scraperVars, extVars>>

\* the state after `import scraper` (which constructs analytics.analytics)
InitProgram ==
    /\ lock = NoThread
    /\ unique_urls = EmptyAgg.unique_urls
    /\ word_freq = EmptyAgg.word_freq
    /\ longest_url = EmptyAgg.longest_url
    /\ longest_word_count = EmptyAgg.longest_word_count
    /\ subdomain_pages = EmptyAgg.subdomain_pages
    /\ pc = [t \in Threads |-> "idle"]
    /\ loc = [t \in Threads |-> NoLoc]
    /\ admitted = <<>>
    /\ scraper_word_freq = <<>>
    /\ longest_page = <<EmptyUrl, 0>>
    /\ unique_pages = {}
    /\ pages_by_subdomain = <<>>
    /\ url_inventory = <<>>
    /\ call = NoCall
    /\ result = NoResult
    /\ rpc = "idle"
    /\ snap = NoSnap
    /\ report_file = NoFile
    /\ seen = NotSeen
    /\ spc = [t \in Threads |-> "idle"]
    /\ sloc = [t \in Threads |-> NoLocals]

Init ==
    /\ InitProgram
    /\ checked = NoCheck
    /\ verdict = "none"
    /\ decisions = {}

NextConc ==
    \/ \E t \in Threads, u \in PageUrls, tk \in TokenLists : AddPageCall(t, u, tk)
    \/ \E t \in Threads : Acquire(t)
    \/ \E t \in Threads : CheckSeen(t)
    \/ \E t \in Threads : Insert(t)
    \/ \E t \in Threads : Longest(t)
    \/ \E t \in Threads : WordFreq(t)
    \/ \E t \in Threads : Subdomain(t)

SpecConc == Init /\ [][NextConc]_vars

-----------------------------------------------------------------------------
(* scraper.py: scraper(url, resp) *)

Mod == [word_freq          |-> scraper_word_freq,
        longest_page       |-> longest_page,
        unique_pages       |-> unique_pages,
        pages_by_subdomain |-> pages_by_subdomain,
        url_inventory      |-> url_inventory]

SetMod(m) ==
    /\ scraper_word_freq' = m.word_freq
    /\ longest_page' = m.longest_page
    /\ unique_pages' = m.unique_pages
    /\ pages_by_subdomain' = m.pages_by_subdomain
    /\ url_inventory' = m.url_inventory

\* lines 553-578: the module-level statistics
RecordModule(m, url, tokens) ==
    LET n         == TokLen(tokens)
        subdomain == get_subdomain(url)
        pbs       == m.pages_by_subdomain
    IN  [word_freq          |-> CounterUpdate(m.word_freq, tokens),
         unique_pages       |-> m.unique_pages \cup {url},
         pages_by_subdomain |->
             IF subdomain # <<>>
             THEN [h \in DOMAIN pbs \cup {subdomain} |->
                      IF h = subdomain
                      THEN (IF h \in DOMAIN pbs THEN pbs[h] ELSE 0) + 1
                      ELSE pbs[h]]
             ELSE pbs,
         url_inventory      |-> Append(m.url_inventory, <<url, n>>),
         longest_page       |-> IF n > m.longest_page[2] THEN <<url, n>>
                                ELSE m.longest_page]

ReturnList(links, at) == [kind |-> "returned", links |-> links, at |-> at]
Raise(at) == [kind |-> "raised", links |-> <<>>, at |-> at]

\* line 458
EntryCheck(url) == is_valid(url)

\* the body of scraper on aggregator a, history adm and module globals m
ScraperRun(a, adm, m, url, resp) ==
    LET page       == resp.page
        tokens     == tokenize(page.text)
        final_url  == resp.url
        a2         == add_page(a, final_url, tokens)
        adm2       == IF a2 # a
                      THEN Append(adm, [url    |-> defrag(final_url),
                                        tokens |-> clean_tokens(tokens)])
                      ELSE adm
        m2         == RecordModule(m, url, tokens)
        link_count == Len(page.anchors) + page.hash_anchors
        Skipped(res) == [agg |-> a, admitted |-> adm, mod |-> m, result |-> res]
        Counted(res) == [agg |-> a2, admitted |-> adm2, mod |-> m2, result |-> res]
    IN  IF ~EntryCheck(url) THEN Skipped(ReturnList(<<>>, "line460"))
        ELSE IF PageGate(resp) = "line482" THEN Skipped(Raise("line482"))
        ELSE IF PageGate(resp) # "pass" THEN Skipped(ReturnList(<<>>, PageGate(resp)))
        ELSE IF page.parse = "fails" THEN Skipped(ReturnList(<<>>, "line512"))
        ELSE IF page.extract = "raises" THEN Skipped(Raise("line518"))
        ELSE IF is_low_information_page(TokLen(tokens))
        THEN Skipped(ReturnList(<<>>, "line531"))
        ELSE IF DeadResponse(resp.clen, TokLen(tokens))
        THEN Skipped(ReturnList(<<>>, "line541"))
        ELSE IF page.find_all = "raises" THEN Counted(Raise("line584"))
        ELSE IF LinkDense(link_count, TokLen(tokens))
        THEN Counted(ReturnList(<<>>, "line589"))
        ELSE Counted(ReturnList(ExtractLinks(final_url, page.anchors), "line661"))

MaxPages == 3

\* one call of scraper(url, resp), run to its return or to the exception it raises
scraper(url, resp) ==
    /\ Len(url_inventory) < MaxPages
    /\ LockFree
    /\ \E out \in {ScraperRun(Agg, admitted, Mod, url, resp)} :
           /\ SetAgg(out.agg)
           /\ admitted' = out.admitted
           /\ SetMod(out.mod)
           /\ result' = out.result
    /\ call' = [url |-> url, resp |-> resp]
    /\ UNCHANGED <<lock, pc, loc, extVars>>

-----------------------------------------------------------------------------
(* Inputs of scraper *)

ics == <<"ics", "uci", "edu">>

USid      == Url("https", ics, <<Seg("a", "")>>, <<Param("sid", "123")>>, "")
USidBlank == Url("https", ics, <<Seg("a", "")>>, <<Param("sid", "")>>, "")
UPdf      == Url("https", ics, <<Seg("a", "pdf")>>, <<>>, "")

H_pdf   == Href("", <<>>, TRUE, <<Seg("a", "pdf")>>, <<>>, "")
H_b     == Href("", <<>>, TRUE, <<Seg("b", "")>>, <<>>, "")
H_b1    == Href("", <<>>, TRUE, <<Seg("b", "")>>, <<>>, "s1")
H_rel   == Href("", <<>>, FALSE, <<Seg("c", "")>>, <<>>, "s2")
H_up    == Href("", <<>>, FALSE, <<DotDotSeg, Seg("d", "")>>, <<>>, "")
H_query == Href("", <<>>, FALSE, <<>>, <<Param("id", "7")>>, "")
H_hash  == Href("", <<>>, FALSE, <<>>, <<>>, "top")
H_empty == Href("", <<>>, FALSE, <<>>, <<>>, "")
H_js    == Href("javascript", <<>>, FALSE, <<Seg("void(0)", "")>>, <<>>, "")
H_mail  == Href("mailto", <<>>, FALSE, <<Seg("a@uci", "edu")>>, <<>>, "")
H_sid   == Href("https", <<"www", "cs", "uci", "edu">>, TRUE, <<Seg("e", "")>>,
                <<Param("jsessionid", "9")>>, "")
H_evil  == Href("http", <<"evil", "com">>, TRUE, <<Seg("x", "")>>, <<>>, "")
H_bad   == [Href("http", <<"[bad">>, FALSE, <<>>, <<>>, "") EXCEPT !.malformed = TRUE]

Hrefs == {H_pdf, H_b, H_b1, H_rel, H_up, H_query, H_hash, H_empty, H_js, H_mail,
          H_sid, H_evil, H_bad}
Fragments == {"", "s1", "s2", "top"}

TextTwo  == <<Run("x", 1), Run("y", 1)>>
TextNine == <<Run("the", 30), Run("crawler", 9)>>
TextTen  == <<Run("The", 5), Run("crawler", 10)>>
TextLong == <<Run("Research", 30), Run("2025", 10), Run("the", 7), Run("ml", 20)>>
TextWide == <<Run("research", 202)>>

Page(text, anchors, hash_anchors) ==
    [parse |-> "ok", extract |-> "ok", find_all |-> "ok",
     text |-> text, anchors |-> anchors, hash_anchors |-> hash_anchors]

PageEmpty     == Page(<<>>, <<>>, 0)
PageScenarioB == Page(TextTwo, <<H_pdf, H_b>>, 0)
PageNine      == Page(TextNine, <<H_b>>, 0)
PageTen       == Page(TextTen, <<H_pdf, H_b>>, 0)
PageLinks     == Page(TextLong,
                      <<H_pdf, H_b, H_b1, H_rel, H_hash, H_js, H_mail, H_empty, H_bad,
                        H_sid, H_evil, H_query, H_up>>, 0)
PageDense     == Page(TextLong, <<H_b>>, 100)
\* 101 links on 202 tokens: a link density of exactly 0.5
PageHalfDense == Page(TextWide, <<H_b>>, 100)
\* exactly 100 links on 10 tokens
PageHundred   == Page(TextTen, <<H_b>>, 99)
\* lxml raises and html.parser parses the document
PageFallback  == [PageTen EXCEPT !.parse = "fallback"]
\* both parsers raise
PageUnparsable == [PageTen EXCEPT !.parse = "fails"]
\* extract_visible_text raises
PageNoText    == [PageLinks EXCEPT !.extract = "raises"]
\* soup.find_all raises
PageNoAnchors == [PageLinks EXCEPT !.find_all = "raises"]

Pages == {PageEmpty, PageScenarioB, PageNine, PageTen, PageLinks, PageDense,
          PageHalfDense, PageHundred,
          PageFallback, PageUnparsable, PageNoText, PageNoAnchors}

Html == "text/html; charset=utf-8"

Resp(status, raw, ctype, clen, url, page) ==
    [status |-> status, raw |-> raw, headers |-> TRUE, ctype |-> ctype, clen |-> clen,
     url |-> url, page |-> page]

ContentLengths ==
    {NoHeader, BadNumber, Number(0), Number(1), Number(49), Number(50),
     Number(MaxContentLength), Number(MaxContentLength + 1)}

\* the responses the fetcher may deliver for a request of url: every way the
\* page gate rejects, a raw_response without headers, every Content-Length,
\* every page, and two redirects
Responses(url) ==
       {Resp(404, TRUE, Html, NoHeader, url, PageLinks),
        Resp(404, TRUE, "application/pdf", Number(MaxContentLength + 1), url, PageLinks),
        Resp(404, TRUE, Html, BadNumber, url, PageLinks),
        Resp(200, FALSE, Html, BadNumber, url, PageLinks),
        Resp(200, TRUE, "application/pdf", BadNumber, url, PageLinks),
        Resp(200, FALSE, Html, NoHeader, url, PageLinks),
        Resp(200, TRUE, "application/pdf", NoHeader, url, PageLinks),
        Resp(200, TRUE, "", NoHeader, url, PageLinks),
        [Resp(200, TRUE, Html, NoHeader, url, PageLinks) EXCEPT !.headers = FALSE]}
  \cup {Resp(200, TRUE, Html, cl, url, PageLinks) : cl \in ContentLengths}
  \cup {Resp(200, TRUE, Html, NoHeader, url, pg) : pg \in Pages}
  \cup {Resp(200, TRUE, Html, NoHeader, final, PageLinks) : final \in {USid, UE}}

\* the calls <<url, resp>> the crawler makes
Requests ==
       {<<UA, resp>> : resp \in Responses(UA)}
  \cup {<<USidBlank, Resp(200, TRUE, Html, NoHeader, USidBlank, PageLinks)>>,
        <<USidBlank, Resp(404, TRUE, Html, NoHeader, USidBlank, PageLinks)>>}
  \cup {<<url, Resp(200, TRUE, Html, NoHeader, url, PageLinks)>> :
            url \in {USid, UPdf, UE, UAf}}

Next ==
    \E rq \in Requests : scraper(rq[1], rq[2])

Spec == Init /\ [][Next]_vars

-----------------------------------------------------------------------------
(* scraper.py: is_valid(url) called on its own *)

\* lines 718-885: what the call gives its caller; an exception of urlparse is
\* caught at lines 882-885
DecisionUncaught(url) ==
    IF url.malformed THEN "raised" ELSE IF is_valid(url) THEN "True" ELSE "False"
Decision(url) == IF is_valid(url) THEN "True" ELSE "False"

example == <<"cs", "example", "edu">>

ProbePaths ==
    { <<>>,
      <<Seg("a", "")>>,
      <<Seg("events", ""), Seg("2024-03", "")>>,
      <<Seg("Events", "")>>,
      <<Seg("event", ""), Seg("a", "")>>,
      <<Seg("a", ""), Seg("calendar", "")>>,
      <<Seg("archive", "")>>,
      <<Seg("tag", ""), Seg("talks", "")>>,
      <<Seg("tag", ""), Seg("a", "")>>,
      <<Seg("ical", "")>>,
      <<Seg("a", ""), Seg("outlook", "")>>,
      <<Seg("news", ""), Seg("2024-03", "")>>,
      <<Seg("news", ""), Seg("2024", ""), Seg("03", "")>>,
      <<Seg("2025-02-14", "")>>,
      <<Seg("2025", ""), Seg("12", ""), Seg("7", "")>>,
      <<Seg("2024", ""), Seg("a", "")>>,
      <<Seg("a", "pdf")>> }

\* the URLs is_valid is asked about, and one string urlparse cannot parse
ProbeUrls ==
       {Url(scheme, host, path, query, frag) :
            scheme \in {"https", "ftp"}, host \in {ics, example}, path \in ProbePaths,
            query \in {<<>>, <<Param("id", "7")>>}, frag \in {"", "top"}}
  \cup {[Url("http", <<"[bad">>, <<Seg("events", "")>>, <<>>, "") EXCEPT !.malformed = TRUE]}

InitProbe ==
    /\ InitProgram
    /\ checked \in ProbeUrls
    /\ verdict = "none"
    /\ decisions = {}

\* one call is_valid(checked)
Decide ==
    /\ verdict = "none"
    /\ verdict' = Decision(checked)
    /\ decisions' = decisions \cup {<<checked, verdict', Len(url_inventory)>>}
    /\ UNCHANGED <<lock, aggVars, pc, loc, admitted, scraperVars, checked, reportVars, raceVars>>

NextProbe == Decide

SpecProbe == InitProbe /\ [][NextProbe]_vars

(* is_valid called by the frontier between calls of scraper *)

UBad == [Url("http", <<"[bad">>, <<Seg("a", "")>>, <<>>, "") EXCEPT !.malformed = TRUE]

OrderUrls == {UA, UPdf, UBad}

OrderRequests ==
    { <<UA, Resp(200, TRUE, Html, NoHeader, UA, PageLinks)>>,
      <<UPdf, Resp(200, TRUE, Html, NoHeader, UPdf, PageLinks)>> }

\* is_valid(url): no statement of it reads or assigns a module global or a
\* field of analytics
IsValidCall(url) ==
    /\ checked' = url
    /\ verdict' = Decision(url)
    /\ decisions' = decisions \cup {<<url, verdict', Len(url_inventory)>>}
    /\ UNCHANGED <<lock, aggVars, pc, loc, admitted, scraperVars, reportVars, raceVars>>

NextOrder ==
    \/ \E url \in OrderUrls : IsValidCall(url)
    \/ \E rq \in OrderRequests : scraper(rq[1], rq[2])

SpecOrder == Init /\ [][NextOrder]_vars

-----------------------------------------------------------------------------
(* What the aggregator must hold, computed from the history of insertions *)

InCritical(t) == pc[t] \in {"line51", "line53", "line55", "line60", "line62"}

\* the recorded pages: the first insertion of each URL
Recorded == {i \in DOMAIN admitted : \A j \in 1..(i - 1) : admitted[j].url # admitted[i].url}

RECURSIVE SumOccurrences(_, _)
SumOccurrences(idx, w) ==
    IF idx = {} THEN 0
    ELSE LET i == CHOOSE k \in idx : TRUE
         IN  Occurrences(admitted[i].tokens, w) + SumOccurrences(idx \ {i}, w)

WordsApplied ==
    /\ \A w \in Words : Count(word_freq, w) = SumOccurrences(Recorded, w)
    /\ \A i \in DOMAIN word_freq : word_freq[i][1] \in Words

MaxRecorded ==
    CHOOSE m \in {TokLen(admitted[i].tokens) : i \in Recorded} :
        \A i \in Recorded : TokLen(admitted[i].tokens) <= m

FirstLongest ==
    CHOOSE i \in Recorded :
        /\ TokLen(admitted[i].tokens) = MaxRecorded
        /\ \A j \in Recorded : TokLen(admitted[j].tokens) = MaxRecorded => i <= j

LongestApplied ==
    IF Recorded = {}
    THEN longest_url = None /\ longest_word_count = 0
    ELSE /\ longest_word_count = MaxRecorded
         /\ longest_url = admitted[FirstLongest].url

UrlsApplied == unique_urls = {admitted[i].url : i \in Recorded}

SubdomainsApplied ==
    LET tracked == {i \in Recorded :
                       EndsWithDomain(hostname(admitted[i].url), <<"uci", "edu">>)}
    IN  /\ DOMAIN subdomain_pages = {hostname(admitted[i].url) : i \in tracked}
        /\ \A h \in DOMAIN subdomain_pages :
               subdomain_pages[h] =
                   {admitted[i].url : i \in {k \in tracked : hostname(admitted[k].url) = h}}

FullyApplied == UrlsApplied /\ WordsApplied /\ LongestApplied /\ SubdomainsApplied

-----------------------------------------------------------------------------
(* analytics.py: write_report *)

TopWords == 50

\* the place of entry i when the entries are ordered by count, largest
\* first, and entries with equal counts keep their insertion order
RankOf(wf, i) ==
    1 + Cardinality({j \in DOMAIN wf :
                        wf[j][2] > wf[i][2] \/ (wf[j][2] = wf[i][2] /\ j < i)})
RankOfLastFirst(wf, i) ==
    1 + Cardinality({j \in DOMAIN wf :
                        wf[j][2] > wf[i][2] \/ (wf[j][2] = wf[i][2] /\ j > i)})

TakeRanked(wf, rank, n) ==
    [k \in 1..(IF n < Len(wf) THEN n ELSE Len(wf)) |->
        wf[CHOOSE i \in DOMAIN wf : rank[i] = k]]

most_commonLastFirst(wf, n) ==
    TakeRanked(wf, [i \in DOMAIN wf |-> RankOfLastFirst(wf, i)], n)
\* Counter.most_common(n): the n entries with the largest counts in
\* non-increasing order, entries with equal counts in insertion order
most_common(wf, n) == TakeRanked(wf, [i \in DOMAIN wf |-> RankOf(wf, i)], n)

\* the host names of the model in the order of Python's string comparison:
\* "ics.uci.edu" < "stat.uci.edu" < "www.cs.uci.edu"
HostOrder ==
    << <<"ics", "uci", "edu">>, <<"stat", "uci", "edu">>, <<"www", "cs", "uci", "edu">> >>

\* lines 73-76: sorted([(sd, len(urls)) ...], key=lambda x: x[0])
SubsUnsorted(sp) ==
    LET hosts == SelectSeq(HostOrder, LAMBDA h : h \in DOMAIN sp)
    IN  [i \in DOMAIN hosts |->
            <<hosts[Len(hosts) + 1 - i], Cardinality(sp[hosts[Len(hosts) + 1 - i]])>>]
Subs(sp) ==
    LET hosts == SelectSeq(HostOrder, LAMBDA h : h \in DOMAIN sp)
    IN  [i \in DOMAIN hosts |-> <<hosts[i], Cardinality(sp[hosts[i]])>>]

\* lines 78-88: the lines of the report
ReportLines(s) ==
    << <<"Unique pages: ", s.unique_pages>>,
       <<"Longest page: ", s.longest_url, ", ", s.longest_wc>>,
       <<"">>,
       <<"Top 50 words (word, count):">> >>
    \o [i \in DOMAIN s.top50 |-> <<s.top50[i][1], ", ", s.top50[i][2]>>]
    \o << <<"">>, <<"Subdomains (alphabetical) and unique page counts:">> >>
    \o [i \in DOMAIN s.subs |-> <<s.subs[i][1], ", ", s.subs[i][2]>>]

ReportHolder == "report"

\* `with self.lock:` of write_report can be entered
ReportLockIgnored == TRUE
ReportLockFree == lock = NoThread

\* lines 67-68
ReportAcquire ==
    /\ rpc = "idle"
    /\ ReportLockFree
    /\ lock' = ReportHolder
    /\ rpc' = "line69"
    /\ seen' = [taken |-> TRUE, agg |-> Agg, applied |-> FullyApplied]
    /\ UNCHANGED <<aggVars, pc, loc, admitted, scraperVars, validVars, raceVars, snap, report_file>>

\* line 69
ReportUniquePages ==
    /\ rpc = "line69"
    /\ snap' = [snap EXCEPT !.unique_pages = Cardinality(unique_urls)]
    /\ rpc' = "line70"
    /\ UNCHANGED <<lock, aggVars, pc, loc, admitted, scraperVars, validVars, raceVars, report_file, seen>>

\* lines 70-71
ReportLongest ==
    /\ rpc = "line70"
    /\ snap' = [snap EXCEPT !.longest_url = longest_url, !.longest_wc = longest_word_count]
    /\ rpc' = "line72"
    /\ UNCHANGED <<lock, aggVars, pc, loc, admitted, scraperVars, validVars, raceVars, report_file, seen>>

\* line 72
ReportTopWords ==
    /\ rpc = "line72"
    /\ snap' = [snap EXCEPT !.top50 = most_common(word_freq, TopWords)]
    /\ rpc' = "line73"
    /\ UNCHANGED <<lock, aggVars, pc, loc, admitted, scraperVars, validVars, raceVars, report_file, seen>>

\* the holder of self.lock once the with block of lines 68-76 has ended
HeldUntilReturn == ReportHolder
ReleasedAfterSnapshot == NoThread

\* lines 73-76, then the with block ends and the lock is released
ReportSubdomains ==
    /\ rpc = "line73"
    /\ snap' = [snap EXCEPT !.subs = Subs(subdomain_pages)]
    /\ lock' = ReleasedAfterSnapshot
    /\ rpc' = "line78"
    /\ UNCHANGED <<aggVars, pc, loc, admitted, scraperVars, validVars, raceVars, report_file, seen>>

\* lines 78-93: the lines are built and written; an exception of open or
\* write is swallowed at lines 92-93 and write_report returns
ReportWrite ==
    /\ rpc = "line78"
    /\ \/ report_file' = ReportLines(snap)
       \/ UNCHANGED report_file
    /\ rpc' = "returned"
    /\ UNCHANGED <<lock, aggVars, pc, loc, admitted, scraperVars, validVars, raceVars, snap, seen>>

(* Inputs of add_page while the report is written *)

UW    == Url("https", <<"www", "cs", "uci", "edu">>, <<Seg("a", "")>>, <<>>, "")
UStat == Url("http", <<"stat", "uci", "edu">>, <<Seg("a", "")>>, <<>>, "")

TTie  == <<Run("crawler", 30), Run("ml", 10), Run("web", 20)>>

ReportCalls == {<<UA, T50>>, <<UW, TTie>>, <<UStat, T700>>}

NextReport ==
    \/ \E t \in Threads, c \in ReportCalls : AddPageCall(t, c[1], c[2])
    \/ \E t \in Threads : Acquire(t)
    \/ \E t \in Threads : CheckSeen(t)
    \/ \E t \in Threads : Insert(t)
    \/ \E t \in Threads : Longest(t)
    \/ \E t \in Threads : WordFreq(t)
    \/ \E t \in Threads : Subdomain(t)
    \/ ReportAcquire
    \/ ReportUniquePages
    \/ ReportLongest
    \/ ReportTopWords
    \/ ReportSubdomains
    \/ ReportWrite

SpecReport == Init /\ [][NextReport]_vars

(* add_page and write_report under fair scheduling: a thread that can take *)
(* a step, or that can take the lock again and again, eventually does. No  *)
(* thread is obliged to call add_page.                                     *)

InsideAddPage(t) ==
    CheckSeen(t) \/ Insert(t) \/ Longest(t) \/ WordFreq(t) \/ Subdomain(t)

InsideWriteReport ==
    ReportUniquePages \/ ReportLongest \/ ReportTopWords \/ ReportSubdomains \/ ReportWrite

\* every step of add_page and of write_report moves a position
positions == <<pc, rpc>>

FairScheduling ==
    /\ \A t \in Threads : SF_positions(Acquire(t)) /\ WF_positions(InsideAddPage(t))
    /\ SF_positions(ReportAcquire)
    /\ WF_positions(InsideWriteReport)

\* calls that take each of the four returns of add_page
LiveCalls == {<<UA, T50>>, <<UAf, T50>>, <<UW, TTie>>, <<UA, T49>>, <<EmptyUrl, T50>>}

NextLive ==
    \/ \E t \in Threads, c \in LiveCalls : AddPageCall(t, c[1], c[2])
    \/ \E t \in Threads : Acquire(t)
    \/ \E t \in Threads : CheckSeen(t)
    \/ \E t \in Threads : Insert(t)
    \/ \E t \in Threads : Longest(t)
    \/ \E t \in Threads : WordFreq(t)
    \/ \E t \in Threads : Subdomain(t)
    \/ ReportAcquire
    \/ ReportUniquePages
    \/ ReportLongest
    \/ ReportTopWords
    \/ ReportSubdomains
    \/ ReportWrite

SpecLive == Init /\ [][NextLive]_vars /\ FairScheduling

(* add_page and write_report called one after the other by one thread *)

\* lines 69-76
Snapshot(a) ==
    [unique_pages |-> Cardinality(a.unique_urls),
     longest_url  |-> a.longest_url,
     longest_wc   |-> a.longest_word_count,
     top50        |-> most_common(a.word_freq, TopWords),
     subs         |-> Subs(a.subdomain_pages)]

\* Analytics.add_page(url, tokens=tokens) run to its return
AddPageWhole(url, tokens) ==
    /\ LockFree
    /\ \E a \in {add_page(Agg, url, tokens)} :
           /\ a # Agg
           /\ SetAgg(a)
           /\ admitted' = Append(admitted, [url    |-> defrag(url),
                                            tokens |-> clean_tokens(tokens)])
    /\ UNCHANGED <<lock, pc, loc, scraperVars, extVars>>

\* Analytics.write_report() run to its return, once (registered with atexit
\* at line 19); the write may fail
WriteReportWhole ==
    /\ LockFree
    /\ rpc = "idle"
    /\ rpc' = "returned"
    /\ seen' = [taken |-> TRUE, agg |-> Agg, applied |-> FullyApplied]
    /\ \E s \in {Snapshot(Agg)} :
           /\ snap' = s
           /\ \/ report_file' = ReportLines(s)
              \/ UNCHANGED report_file
    /\ UNCHANGED <<lock, aggVars, pc, loc, admitted, scraperVars, validVars, raceVars>>

HalfWords == 26
TManyA == [i \in 1..HalfWords |-> Run("w" \o ToString(i), 2)]
TManyB == [i \in 1..HalfWords |-> Run("w" \o ToString(HalfWords + i), 2)]

SerialCalls == {<<UA, T50>>, <<UW, TTie>>, <<UStat, TManyA>>, <<UE, TManyB>>}

NextSerial ==
    \/ \E c \in SerialCalls : AddPageWhole(c[1], c[2])
    \/ WriteReportWhole

SpecSerial == Init /\ [][NextSerial]_vars

(* add_page called with pages of any host, one call after the other *)

UEng == Url("https", <<"eng", "uci", "edu">>, <<Seg("a", "")>>, <<>>, "")
UUci == Url("https", <<"uci", "edu">>, <<Seg("a", "")>>, <<>>, "")

PageCalls == {UA, UAf, UW, UStat, UEng, UUci, UE} \X {T50, T700}

NextPages ==
    \E c \in PageCalls : AddPageWhole(c[1], c[2])

SpecPages == Init /\ [][NextPages]_vars

-----------------------------------------------------------------------------
(* scraper.py: scraper(url, resp) called by several worker threads. The     *)
(* statements of lines 553-578 on the module globals take no lock; a thread *)
(* switch can fall between a read of a global and the write that follows.   *)

\* the `at` of the returns and raises that come before line 546
EarlyExits ==
    {"line460", "line469", "line474", "line482", "line484", "line495", "line512",
     "line518", "line531", "line541"}

RECURSIVE TokenAt(_, _)
\* tokens[i - 1] of the list the runs stand for
TokenAt(tokens, i) ==
    IF i <= Head(tokens).n THEN Head(tokens).w
    ELSE TokenAt(Tail(tokens), i - Head(tokens).n)

\* d[k] = v on a dictionary kept as pairs in insertion order
DictSet(d, k, v) ==
    IF HasKey(d, k)
    THEN [i \in DOMAIN d |-> IF d[i][1] = k THEN <<k, v>> ELSE d[i]]
    ELSE Append(d, <<k, v>>)

\* lines 458-547: the checks, the parse, the gates and analytics.add_page
ScraperEnter(t, url, resp) ==
    /\ spc[t] = "idle"
    /\ LockFree
    /\ \E out \in {ScraperRun(Agg, admitted, Mod, url, resp)} :
           IF out.result.at \in EarlyExits
           THEN /\ spc' = [spc EXCEPT ![t] = "done"]
                /\ sloc' = [sloc EXCEPT ![t] = [NoLocals EXCEPT !.url = url,
                                                                !.result = out.result]]
                /\ UNCHANGED <<aggVars, admitted>>
           ELSE /\ spc' = [spc EXCEPT ![t] = "line553"]
                /\ sloc' = [sloc EXCEPT ![t] =
                               [url |-> url, tokens |-> tokenize(resp.page.text), i |-> 1,
                                got |-> 0, result |-> out.result]]
                /\ SetAgg(out.agg)
                /\ admitted' = out.admitted
    /\ UNCHANGED <<lock, pc, loc, scraperVars, validVars, reportVars>>

\* line 554, right-hand side: word_freq.get(tok, 0)
WordRead(t) ==
    /\ spc[t] = "line553"
    /\ sloc' = [sloc EXCEPT ![t].got =
                   Count(scraper_word_freq, TokenAt(sloc[t].tokens, sloc[t].i))]
    /\ spc' = [spc EXCEPT ![t] = "line554"]
    /\ UNCHANGED <<lock, aggVars, pc, loc, admitted, scraperVars, validVars, reportVars>>

\* line 554, the store word_freq[tok] = ... + 1, and the next iteration
WordWrite(t) ==
    /\ spc[t] = "line554"
    /\ scraper_word_freq' =
           DictSet(scraper_word_freq, TokenAt(sloc[t].tokens, sloc[t].i), sloc[t].got + 1)
    /\ sloc' = [sloc EXCEPT ![t].i = @ + 1]
    /\ spc' = [spc EXCEPT ![t] =
                 IF sloc[t].i < TokLen(sloc[t].tokens) THEN "line553" ELSE "line560"]
    /\ UNCHANGED <<lock, aggVars, pc, loc, admitted, longest_page, unique_pages,
                   pages_by_subdomain, url_inventory, call, result, validVars, reportVars>>

\* line 560
UniquePage(t) ==
    /\ spc[t] = "line560"
    /\ unique_pages' = unique_pages \cup {sloc[t].url}
    /\ spc' = [spc EXCEPT ![t] = "line565"]
    /\ UNCHANGED <<lock, aggVars, pc, loc, admitted, scraper_word_freq, longest_page,
                   pages_by_subdomain, url_inventory, call, result, validVars,
                   reportVars, sloc>>

\* lines 565-567, right-hand side: pages_by_subdomain.get(subdomain, 0)
SubdomainRead(t) ==
    /\ spc[t] = "line565"
    /\ LET subdomain == get_subdomain(sloc[t].url)
       IN  IF subdomain # <<>>
           THEN /\ sloc' = [sloc EXCEPT ![t].got =
                               IF subdomain \in DOMAIN pages_by_subdomain
                               THEN pages_by_subdomain[subdomain] ELSE 0]
                /\ spc' = [spc EXCEPT ![t] = "line567"]
           ELSE /\ spc' = [spc EXCEPT ![t] = "line572"]
                /\ UNCHANGED sloc
    /\ UNCHANGED <<lock, aggVars, pc, loc, admitted, scraperVars, validVars, reportVars>>

\* line 567, the store pages_by_subdomain[subdomain] = ... + 1
SubdomainWrite(t) ==
    /\ spc[t] = "line567"
    /\ LET subdomain == get_subdomain(sloc[t].url)
       IN  pages_by_subdomain' =
               [h \in DOMAIN pages_by_subdomain \cup {subdomain} |->
                   IF h = subdomain THEN sloc[t].got + 1 ELSE pages_by_subdomain[h]]
    /\ spc' = [spc EXCEPT ![t] = "line572"]
    /\ UNCHANGED <<lock, aggVars, pc, loc, admitted, scraper_word_freq, longest_page,
                   unique_pages, url_inventory, call, result, validVars, reportVars, sloc>>

\* line 572
Inventory(t) ==
    /\ spc[t] = "line572"
    /\ url_inventory' = Append(url_inventory, <<sloc[t].url, TokLen(sloc[t].tokens)>>)
    /\ spc' = [spc EXCEPT ![t] = "line577"]
    /\ UNCHANGED <<lock, aggVars, pc, loc, admitted, scraper_word_freq, longest_page,
                   unique_pages, pages_by_subdomain, call, result, validVars,
                   reportVars, sloc>>

\* line 577
LongestTest(t) ==
    /\ spc[t] = "line577"
    /\ spc' = [spc EXCEPT ![t] =
                 IF TokLen(sloc[t].tokens) > longest_page[2] THEN "line578" ELSE "line584"]
    /\ UNCHANGED <<lock, aggVars, pc, loc, admitted, scraperVars, validVars, reportVars,
                   sloc>>

\* line 578
LongestSet(t) ==
    /\ spc[t] = "line578"
    /\ longest_page' = <<sloc[t].url, TokLen(sloc[t].tokens)>>
    /\ spc' = [spc EXCEPT ![t] = "line584"]
    /\ UNCHANGED <<lock, aggVars, pc, loc, admitted, scraper_word_freq, unique_pages,
                   pages_by_subdomain, url_inventory, call, result, validVars,
                   reportVars, sloc>>

\* lines 584-661 touch no statistic: the call returns sloc[t].result
Links(t) ==
    /\ spc[t] = "line584"
    /\ spc' = [spc EXCEPT ![t] = "done"]
    /\ UNCHANGED <<lock, aggVars, pc, loc, admitted, scraperVars, validVars, reportVars,
                   sloc>>

(* Inputs of the concurrent scraper calls *)

UW2 == Url("https", <<"www", "cs", "uci", "edu">>, <<Seg("b", "")>>, <<>>, "")

TextEleven == <<Run("crawler", 10), Run("web", 1)>>
PageEleven == Page(TextEleven, <<H_b>>, 0)

RaceRequests ==
    { <<UW, Resp(200, TRUE, Html, NoHeader, UW, PageTen)>>,
      <<UW2, Resp(200, TRUE, Html, NoHeader, UW2, PageEleven)>>,
      <<UW2, Resp(404, TRUE, Html, NoHeader, UW2, PageEleven)>> }

NextRace ==
    \/ \E t \in Threads, rq \in RaceRequests : ScraperEnter(t, rq[1], rq[2])
    \/ \E t \in Threads : WordRead(t)
    \/ \E t \in Threads : WordWrite(t)
    \/ \E t \in Threads : UniquePage(t)
    \/ \E t \in Threads : SubdomainRead(t)
    \/ \E t \in Threads : SubdomainWrite(t)
    \/ \E t \in Threads : Inventory(t)
    \/ \E t \in Threads : LongestTest(t)
    \/ \E t \in Threads : LongestSet(t)
    \/ \E t \in Threads : Links(t)

SpecRace == Init /\ [][NextRace]_vars

-----------------------------------------------------------------------------
(* C1: add_page is idempotent per URL. In every state in which no call is   *)
(* inside the critical section, for every URL and token list a second       *)
(* add_page with the same arguments leaves the aggregator as the first left *)
(* it, a call whose defragmented URL is already in unique_urls changes      *)
(* nothing, and no URL has been inserted (credited) twice.                  *)
C1_Idempotent ==
    lock = NoThread =>
        /\ \A u \in PageUrls, tk \in TokenLists :
               /\ add_page(add_page(Agg, u, tk), u, tk) = add_page(Agg, u, tk)
               /\ defrag(u) \in unique_urls => add_page(Agg, u, tk) = Agg
        /\ \A i, j \in DOMAIN admitted : admitted[i].url = admitted[j].url => i = j

\* a call for an already recorded URL has returned at line 52
C1_Witness ==
    /\ lock = NoThread
    /\ \E t \in Threads : pc[t] = "ret52"
    /\ unique_urls # {}

(* C2: the membership test and the four updates of one call are a single    *)
(* critical section. At most one thread is inside it, and a thread that has *)
(* just taken the lock (line 51) sees every inserted URL fully applied to   *)
(* word_freq, longest and subdomain_pages.                                  *)
C2_CriticalSection ==
    /\ Cardinality({t \in Threads : InCritical(t)}) <= 1
    /\ \A t \in Threads : InCritical(t) => lock = t
    /\ \A t \in Threads : pc[t] = "line51" => FullyApplied

\* a thread enters the critical section after another call was applied,
\* while the other thread waits for the lock
C2_Witness ==
    /\ \E t \in Threads : pc[t] = "line51"
    /\ \E t \in Threads : pc[t] = "line50"
    /\ unique_urls # {}

(* C3: whenever the lock is free, the count of every word in word_freq is   *)
(* the sum of its occurrences in the cleaned tokens of the recorded pages:  *)
(* no increment is lost and none is applied twice, in every interleaving.   *)
C3_WordTotals == lock = NoThread => WordsApplied

\* both threads have recorded a page and the pages share a word
C3_Witness ==
    /\ lock = NoThread
    /\ \A t \in Threads : pc[t] = "ret64"
    /\ \E w \in Words : \A i \in DOMAIN admitted : Occurrences(admitted[i].tokens, w) > 0
    /\ Len(admitted) = 2

(* C4: whenever the lock is free, longest_word_count is the maximum cleaned *)
(* token count of the recorded pages and longest_url is the first recorded  *)
(* page with that count (an equal later page does not replace it).          *)
C4_Longest == lock = NoThread => LongestApplied

\* two pages with the same count recorded: the tie
C4_Witness ==
    /\ lock = NoThread
    /\ Len(admitted) = 2
    /\ TokLen(admitted[1].tokens) = TokLen(admitted[2].tokens)

(* C5: the threshold is inclusive and counts the cleaned tokens. Whenever   *)
(* the lock is free, add_page on a non-empty URL not yet in unique_urls     *)
(* changes the aggregator iff the page has at least min_words tokens after  *)
(* clean_tokens; every recorded page has at least min_words tokens.         *)
C5_Threshold ==
    lock = NoThread =>
        /\ \A u \in PageUrls \ {EmptyUrl}, tk \in TokenLists :
               defrag(u) \notin unique_urls =>
                   ((add_page(Agg, u, tk) # Agg) <=> (TokLen(clean_tokens(tk)) >= min_words))
        /\ \A i \in DOMAIN admitted : TokLen(admitted[i].tokens) >= min_words

\* a page with exactly min_words tokens is recorded and is the longest,
\* and a call with fewer tokens has returned at line 48
C5_Witness ==
    /\ lock = NoThread
    /\ longest_word_count = min_words
    /\ \E t \in Threads : pc[t] = "ret48"

-----------------------------------------------------------------------------
(* What a call of scraper must deliver, stated on the call and its result *)

Called == call # NoCall

ReturnedLinks == {result.links[i] : i \in DOMAIN result.links}

\* the four rejections of the page gate, read off the response alone
GateRejects(resp) ==
    \/ resp.status # 200
    \/ ~resp.raw
    \/ resp.headers /\ ~Contains(resp.ctype, "text/html")
    \/ resp.headers /\ resp.clen.kind = "int" /\ resp.clen.n > 5 * 1024 * 1024

\* the URL an href of one rooted path resolves to against base
ResolvedRooted(base, path) == Url(base.scheme, base.host, path, <<>>, "")

\* some query parameter name of url contains a session/tracking keyword
CarriesSessionParam(url) ==
    \E i \in DOMAIN url.query :
        \E susp \in suspicious_params : Contains(Lower(url.query[i].name), susp)

\* the response is a 200 text/html document whose body has the links
\* /a.pdf and /b
ScenarioB(resp) ==
    /\ resp.status = 200 /\ resp.raw /\ resp.headers
    /\ Contains(resp.ctype, "text/html")
    /\ \E i \in DOMAIN resp.page.anchors : resp.page.anchors[i] = H_pdf
    /\ \E i \in DOMAIN resp.page.anchors : resp.page.anchors[i] = H_b

\* the page is processed up to link extraction: the gate passes, the document
\* parses, text extraction and the anchor search succeed, and none of the
\* three trap heuristics (low information, dead 200, link density) fires
ReachesLinkExtraction(url, resp) ==
    LET words == TokLen(tokenize(resp.page.text))
        links == Len(resp.page.anchors) + resp.page.hash_anchors
    IN  /\ is_valid(url)
        /\ ~GateRejects(resp)
        /\ resp.headers
        /\ resp.page.parse # "fails"
        /\ resp.page.extract = "ok"
        /\ resp.page.find_all = "ok"
        /\ words >= 10
        /\ ~(resp.clen.kind = "int" /\ resp.clen.n > 0 /\ resp.clen.n < 50)
        /\ ~(links > 100 /\ 2 * links > words)

-----------------------------------------------------------------------------
(* C6: when the page gate rejects the response of a call (status other than *)
(* 200, raw_response absent, Content-Type without text/html, or a parseable *)
(* Content-Length above 5 MiB), the call returns the empty list and leaves  *)
(* the Analytics aggregator and every module-level counter unchanged.       *)
C6_GateFrame ==
    [][(call' # NoCall /\ GateRejects(call'.resp)) =>
           /\ result'.kind = "returned"
           /\ result'.links = <<>>
           /\ UNCHANGED <<aggVars, moduleVars, admitted>>]_vars

\* after pages were recorded, a valid URL's response with a Content-Length
\* of 5 MiB + 1 and nothing else wrong is rejected
C6_Witness ==
    /\ Called
    /\ is_valid(call.url)
    /\ call.resp.status = 200 /\ call.resp.raw
    /\ Contains(call.resp.ctype, "text/html")
    /\ call.resp.clen = Number(MaxContentLength + 1)
    /\ result = ReturnList(<<>>, "line495")
    /\ unique_urls # {}
    /\ url_inventory # <<>>

(* C7 (as stated): scraper never raises to its caller; every call returns a *)
(* list. Refuted: lines 482, 518 and 584 are outside every try block.       *)
C7_NeverRaises == Called => result.kind = "returned"

C10_NoSessionUrls == \A url \in unique_urls : ~CarriesSessionParam(url)

-----------------------------------------------------------------------------
(* What is_valid must decide, stated on the URL alone *)

CalendarKeywords == {"calendar", "event", "events", "archive", "ical", "outlook"}

\* some path segment is a calendar/event/archive keyword, or tag/talks
HasKeywordSegment(url) ==
    \/ \E i \in DOMAIN url.path : Lower(SegText(url.path[i])) \in CalendarKeywords
    \/ \E i \in DOMAIN url.path :
           /\ i < Len(url.path)
           /\ SegText(url.path[i]) = "tag"
           /\ SegText(url.path[i + 1]) = "talks"

\* /YYYY-MM, /YYYY-MM-DD, /YYYY/MM or /YYYY/MM/DD
HasDatePattern(url) ==
    \/ \E i \in DOMAIN url.path : SegText(url.path[i]) \in {"2024-03", "2025-02-14"}
    \/ \E i \in DOMAIN url.path :
           /\ i < Len(url.path)
           /\ SegText(url.path[i]) \in {"2024", "2025"}
           /\ SegText(url.path[i + 1]) \in {"03", "12"}

(* C11: is_valid returns False for every URL whose path has a calendar,     *)
(* event(s), archive, tag/talks, ical or outlook segment or a /YYYY-MM or   *)
(* /YYYY/MM (optionally -DD) date pattern, whatever its scheme, host, query *)
(* and fragment are; https://cs.example.edu/events/2024-03 is rejected.     *)
C11_CalendarRejected ==
    (verdict # "none" /\ (HasKeywordSegment(checked) \/ HasDatePattern(checked))) =>
        verdict = "False"

\* an in-scope https URL with nothing wrong but /news/2024-03 was rejected
C11_Witness ==
    /\ checked = Url("https", ics, <<Seg("news", ""), Seg("2024-03", "")>>, <<>>, "")
    /\ verdict = "False"

-----------------------------------------------------------------------------
(* What write_report must deliver, stated on the aggregator it saw *)

ReportPositions == {"idle", "line69", "line70", "line72", "line73", "line78", "returned"}

\* write_report has executed the line
ReportPast(line) ==
    CASE line = 69 -> rpc \in {"line70", "line72", "line73", "line78", "returned"}
      [] line = 71 -> rpc \in {"line72", "line73", "line78", "returned"}
      [] line = 72 -> rpc \in {"line73", "line78", "returned"}
      [] line = 76 -> rpc \in {"line78", "returned"}

\* the locals assigned so far are those of the aggregator state a
SnapshotOf(a) ==
    /\ ReportPast(69) => snap.unique_pages = Cardinality(a.unique_urls)
    /\ ReportPast(71) =>
           snap.longest_url = a.longest_url /\ snap.longest_wc = a.longest_word_count
    /\ ReportPast(72) =>
           /\ Len(snap.top50) = (IF Len(a.word_freq) < 50 THEN Len(a.word_freq) ELSE 50)
           /\ \A k \in DOMAIN snap.top50 :
                  \E i \in DOMAIN a.word_freq : a.word_freq[i] = snap.top50[k]
    /\ ReportPast(76) =>
           {snap.subs[k] : k \in DOMAIN snap.subs}
               = {<<h, Cardinality(a.subdomain_pages[h])>> : h \in DOMAIN a.subdomain_pages}

\* the file holds the page count and the longest page of aggregator state a
FileOf(a) ==
    report_file # NoFile =>
        /\ report_file[1] = <<"Unique pages: ", Cardinality(a.unique_urls)>>
        /\ report_file[2] = <<"Longest page: ", a.longest_url, ", ", a.longest_word_count>>
        /\ Len(report_file) = 6 + Len(snap.top50) + Len(snap.subs)

(* C13: write_report running concurrently with add_page calls renders a     *)
(* consistent snapshot: the page count, longest page, top words and         *)
(* subdomain counts it holds, and the file it writes, are those of the one  *)
(* aggregator state it found when it took the lock, and in that state every *)
(* recorded page was fully applied; write_report never raises.              *)
C13_ConsistentSnapshot ==
    /\ rpc \in ReportPositions
    /\ seen.taken => seen.applied
    /\ SnapshotOf(seen.agg)
    /\ FileOf(seen.agg)

\* write_report is inside its snapshot after a page was recorded, while a
\* thread waits for the lock and the other prepares a call
C13_Witness ==
    /\ rpc = "line72"
    /\ seen.agg.unique_urls # {}
    /\ \E t \in Threads : pc[t] = "line50"

(* C14 (as stated): the file is written while write_report holds the lock,  *)
(* so no add_page critical section runs between the snapshot and the end of *)
(* the write. Refuted: the with block ends at line 76, the write is at 90.  *)
C14_WriteUnderLock ==
    rpc = "line78" => (lock = ReportHolder /\ \A t \in Threads : ~InCritical(t))

(* C14 (amended): write_report holds add_page's lock exactly while it takes *)
(* its snapshot (lines 68-76), so no add_page critical section runs during  *)
(* the snapshot; the lock is released before the file is written, add_page  *)
(* may run in between, and the file still holds the snapshot.               *)
C14_SnapshotUnderLock ==
    /\ rpc \in {"line69", "line70", "line72", "line73"} =>
           (lock = ReportHolder /\ \A t \in Threads : ~InCritical(t))
    /\ rpc \in {"idle", "line78", "returned"} => lock # ReportHolder
    /\ report_file # NoFile => report_file = ReportLines(snap)
    /\ ReportPast(76) => snap.unique_pages = Cardinality(seen.agg.unique_urls)

\* a page is being recorded after the snapshot and before the write
C14_Witness ==
    /\ rpc = "line78"
    /\ \E t \in Threads : pc[t] = "line60"
    /\ snap.unique_pages < Cardinality(unique_urls)

-----------------------------------------------------------------------------
(* What concurrent scraper calls must leave in the module globals *)

RECURSIVE SumSecond(_)
SumSecond(pairs) == IF pairs = <<>> THEN 0 ELSE Head(pairs)[2] + SumSecond(Tail(pairs))

RECURSIVE SumValues(_)
SumValues(f) ==
    IF DOMAIN f = {} THEN 0
    ELSE LET k == CHOOSE x \in DOMAIN f : TRUE
         IN  f[k] + SumValues([x \in DOMAIN f \ {k} |-> f[x]])

(* C15 (as stated): concurrent scraper calls share no mutable state but the *)
(* aggregator, so no interleaving loses a statistic update. Once every call *)
(* has returned, the module statistics account for every processed page:    *)
(* the word counts add up to the pages' token counts, each processed page   *)
(* is counted in pages_by_subdomain, longest_page is the longest of them.   *)
(* Refuted: lines 553-578 update five module globals without any lock.      *)
C15_NoLostUpdate ==
    (\A t \in Threads : spc[t] \in {"idle", "done"}) =>
        /\ SumSecond(scraper_word_freq) = SumSecond(url_inventory)
        /\ SumValues(pages_by_subdomain) = Len(url_inventory)
        /\ \A i \in DOMAIN url_inventory : url_inventory[i][2] <= longest_page[2]

-----------------------------------------------------------------------------
(* What the report must list *)

\* the place of the entry <<word, count>> in the Counter
PlaceIn(wf, entry) == CHOOSE i \in DOMAIN wf : wf[i] = entry

\* host g is before host h in lexicographic order
HostBefore(g, h) ==
    \E i, j \in DOMAIN HostOrder : i < j /\ HostOrder[i] = g /\ HostOrder[j] = h

(* C16: the written report lists the min(50, number of distinct words) most *)
(* frequent words in non-increasing order of count, words with equal counts *)
(* in the order of their first insertion into word_freq, and the tracked    *)
(* hostnames in lexicographic order, each with the size of its page set.    *)
C16_ReportOrder ==
    report_file # NoFile =>
        LET wf  == seen.agg.word_freq
            sp  == seen.agg.subdomain_pages
            top == snap.top50
            subs == snap.subs
        IN  /\ report_file = ReportLines(snap)
            /\ Len(top) = (IF Len(wf) < 50 THEN Len(wf) ELSE 50)
            /\ \A k \in DOMAIN top : \E i \in DOMAIN wf : wf[i] = top[k]
            /\ \A k \in 1..(Len(top) - 1) :
                   \/ top[k][2] > top[k + 1][2]
                   \/ /\ top[k][2] = top[k + 1][2]
                      /\ PlaceIn(wf, top[k]) < PlaceIn(wf, top[k + 1])
            /\ \A i \in DOMAIN wf :
                   (\A k \in DOMAIN top : top[k] # wf[i]) =>
                       \/ wf[i][2] < top[Len(top)][2]
                       \/ /\ wf[i][2] = top[Len(top)][2]
                          /\ PlaceIn(wf, top[Len(top)]) < i
            /\ {subs[k][1] : k \in DOMAIN subs} = DOMAIN sp
            /\ \A k \in DOMAIN subs : subs[k][2] = Cardinality(sp[subs[k][1]])
            /\ \A k \in 1..(Len(subs) - 1) : HostBefore(subs[k][1], subs[k + 1][1])

\* 56 distinct words were cut to 50, three words tie at 30, and three
\* tracked hosts are listed
C16_Witness ==
    /\ report_file # NoFile
    /\ report_file = ReportLines(snap)
    /\ Len(seen.agg.word_freq) = 56
    /\ Len(snap.top50) = 50
    /\ snap.top50[1][2] = 30 /\ snap.top50[3][2] = 30
    /\ Len(snap.subs) = 3

-----------------------------------------------------------------------------
(* What the trap heuristics of scraper must deliver, stated on the call *)

\* the tokens of the response's visible text, stopwords removed
TokenCount(resp) == TokLen(tokenize(resp.page.text))

\* the <a href> elements of the response's document
LinkCount(resp) == Len(resp.page.anchors) + resp.page.hash_anchors

\* the call gets as far as counting the page's tokens: the requested URL is
\* valid, the page gate passes, the document parses and its text is read
ReachesTokenGates(url, resp) ==
    /\ is_valid(url)
    /\ ~GateRejects(resp)
    /\ resp.headers
    /\ resp.page.parse # "fails"
    /\ resp.page.extract = "ok"

\* the response declares a Content-Length that int() parses to n
Declares(resp, n) == resp.clen.kind = "int" /\ resp.clen.n = n

\* the page passed the low-information and dead-200 gates as the code applies
\* them, and the anchor search succeeds
ReachesDensityGate(url, resp) ==
    /\ ReachesTokenGates(url, resp)
    /\ TokenCount(resp) >= 10
    /\ ~(\E n \in 1..49 : Declares(resp, n))
    /\ resp.page.find_all = "ok"

\* the call left no trace in the aggregator or in the module-level statistics
NothingRecorded == UNCHANGED <<aggVars, moduleVars, admitted>>

(* C17: low-information gate. When the page of a call has fewer than 10     *)
(* tokens after stopword removal, the call returns the empty list, no link  *)
(* is extracted, and neither the Analytics aggregator nor any module-level  *)
(* counter changes.                                                         *)
C17_LowInformation ==
    [][(/\ call' # NoCall
        /\ ReachesTokenGates(call'.url, call'.resp)
        /\ TokenCount(call'.resp) < 10) =>
           /\ result'.kind = "returned"
           /\ result'.links = <<>>
           /\ NothingRecorded]_vars

\* after a page was recorded, a page of 39 words of which 9 are not
\* stopwords, with a valid link /b, was dropped at the gate
C17_Witness ==
    /\ Called
    /\ call.resp.page = PageNine
    /\ TokLen(call.resp.page.text) > 10
    /\ result = ReturnList(<<>>, "line531")
    /\ url_inventory # <<>>
    /\ \A i \in DOMAIN url_inventory : url_inventory[i][2] >= 10

(* C18 (as stated): dead-200 gate. A page with zero extracted tokens, or    *)
(* whose response declares a Content-Length of any value from 0 to 49,      *)
(* returns no links and records no statistics. Refuted: is_dead_200 tests   *)
(* content_length > 0, so a declared Content-Length of 0 is processed.      *)
C18_DeadRejected ==
    [][(/\ call' # NoCall
        /\ ReachesTokenGates(call'.url, call'.resp)
        /\ \/ TokenCount(call'.resp) = 0
           \/ \E n \in 0..49 : Declares(call'.resp, n)) =>
           /\ result'.kind = "returned"
           /\ result'.links = <<>>
           /\ NothingRecorded]_vars

(* C19: link-density gate. For a page that passed the earlier gates, the    *)
(* module-level statistics are recorded and analytics.add_page has seen the *)
(* page whatever the density; the call returns the empty list when          *)
(* linkCount > 100 and linkCount/tokenCount > 0.5, and otherwise returns    *)
(* the links extracted from the page.                                       *)
C19_LinkDensity ==
    [][(call' # NoCall /\ ReachesDensityGate(call'.url, call'.resp)) =>
           LET resp  == call'.resp
               words == TokenCount(resp)
               links == LinkCount(resp)
               final == defrag(resp.url)
               kept  == clean_tokens(tokenize(resp.page.text))
           IN  /\ url_inventory' = Append(url_inventory, <<call'.url, words>>)
               /\ call'.url \in unique_pages'
               /\ TokLen(kept) >= min_words => final \in unique_urls'
               /\ (TokLen(kept) >= min_words /\ final \notin unique_urls) =>
                      admitted' = Append(admitted, [url |-> final, tokens |-> kept])
               /\ result'.kind = "returned"
               /\ IF links > 100 /\ 2 * links > words
                  THEN result'.links = <<>>
                  ELSE result'.links = ExtractLinks(resp.url, resp.page.anchors)]_vars

\* a page of 101 links on 60 tokens returned nothing and is the last entry of
\* the inventory and a member of analytics.unique_urls
C19_Witness ==
    /\ Called
    /\ call.resp.page = PageDense
    /\ result = ReturnList(<<>>, "line589")
    /\ url_inventory # <<>>
    /\ url_inventory[Len(url_inventory)] = <<call.url, 60>>
    /\ defrag(call.resp.url) \in unique_urls

(* C20: the size check fails open and only it does. For a response with     *)
(* status 200, a raw_response and a text/html Content-Type, the call is     *)
(* rejected by the size check exactly when Content-Length parses to more    *)
(* than 5*1024*1024: an absent or unparsable header and a value of exactly  *)
(* 5 MiB let processing continue. A status other than 200, a missing        *)
(* raw_response or another Content-Type returns the empty list whatever     *)
(* the Content-Length header holds.                                         *)
C20_SizeFailsOpen ==
    (Called /\ is_valid(call.url)) =>
        LET resp == call.resp
            html == resp.headers /\ Contains(resp.ctype, "text/html")
        IN  /\ (resp.status # 200 \/ ~resp.raw \/ (resp.headers /\ ~html)) =>
                   /\ result.kind = "returned"
                   /\ result.links = <<>>
                   /\ result.at \in {"line469", "line474", "line484"}
            /\ (resp.status = 200 /\ resp.raw /\ html) =>
                   /\ (resp.clen.kind = "int" /\ resp.clen.n > 5 * 1024 * 1024) =>
                          result = ReturnList(<<>>, "line495")
                   /\ ~(resp.clen.kind = "int" /\ resp.clen.n > 5 * 1024 * 1024) =>
                          result.at # "line495"
                   /\ (resp.clen \in {NoHeader, BadNumber, Number(5 * 1024 * 1024)}
                       /\ resp.page = PageLinks) =>
                          /\ result.at = "line661"
                          /\ DomainOk(resp.url) => result.links # <<>>

\* after an unparsable Content-Length let a page through to link extraction,
\* a 404 response with an unparsable Content-Length was rejected on its status
C20_Witness ==
    /\ Called
    /\ is_valid(call.url)
    /\ call.resp.status = 404
    /\ call.resp.clen = BadNumber
    /\ result = ReturnList(<<>>, "line469")
    /\ url_inventory # <<>>

-----------------------------------------------------------------------------
(* What the aggregator's fields must satisfy, stated on the fields alone *)

\* host equals an allowed domain or is a subdomain of one
InAllowedDomain(host) ==
    \E d \in allowed_domains : host = d \/ EndsWithDomain(host, d)

(* C21 (as stated): every key of subdomain_pages is a host name that equals *)
(* or is a subdomain of ics.uci.edu, cs.uci.edu, informatics.uci.edu or     *)
(* stat.uci.edu, and every URL in a host's set has that host name. Refuted: *)
(* line 63 admits every host name that ends with ".uci.edu".                *)
C21_AllowedHostsOnly ==
    \A h \in DOMAIN subdomain_pages :
        /\ InAllowedDomain(h)
        /\ \A url \in subdomain_pages[h] : hostname(url) = h

(* C22 (as stated): after any sequence of scraper calls every member of     *)
(* analytics.unique_urls satisfies is_valid, also when the response was     *)
(* redirected. Refuted: line 458 validates the requested URL, and lines     *)
(* 546-547 hand raw_response.url to add_page, which validates nothing.      *)
C22_CreditedInScope == \A url \in unique_urls : is_valid(url)

C24_Structure ==
    LockFree =>
        /\ (longest_url = None) <=> (unique_urls = {})
        /\ unique_urls # {} =>
               /\ longest_url \in unique_urls
               /\ longest_word_count >= min_words
        /\ \A h \in DOMAIN subdomain_pages : subdomain_pages[h] \subseteq unique_urls
        /\ \A i \in DOMAIN word_freq :
               /\ Len(word_freq[i][1]) >= 2
               /\ ~IsNumeric(word_freq[i][1])

\* two pages are recorded, one of them on a tracked host, the longest has 700
\* words, and both threads are outside add_page's critical section
C24_Witness ==
    /\ LockFree
    /\ Cardinality(unique_urls) = 2
    /\ longest_url \in unique_urls
    /\ longest_word_count = 700
    /\ \E h \in DOMAIN subdomain_pages : subdomain_pages[h] # {}
    /\ Len(word_freq) >= 2
    /\ \A t \in Threads : pc[t] \in Returned

====
